---- MODULE Spec2Model ----
(***************************************************************************)
(* archive-workdir: copy the subdirectories of a working directory to an   *)
(* archive directory, following renames by an identity file (.awid).       *)
(*                                                                         *)
(* The model follows src/archive_workdir/archive_workdir.py.  A run of     *)
(* main() is cut at its filesystem operations: the index build, one scan   *)
(* iteration per work subdirectory, one rsync call per planned entry, and  *)
(* the final report.                                                       *)
(***************************************************************************)
EXTENDS Integers, Sequences, FiniteSets, TLC

(***************************************************************************)
(* Bounds                                                                   *)
(***************************************************************************)
\* markers present on disk before the first run are 1..NumMarkers
NumMarkers == 2
\* number of subdirectories under the two roots together before a single run
MaxDirs == 4
\* the same, before a run that is followed by a second one
MaxRerunDirs == 3

\* Directory names are strings over a two-letter alphabet, written as
\* tuples of character codes: "a" < "ab" < "b" in Python's str order.
Names == { <<1>>, <<1, 2>>, <<2>> }

NoName == << >>
\* read_dir_id's None
NoId == 0
Markers == 1..NumMarkers

(***************************************************************************)
(* The filesystem: each root maps a name to a directory or to nothing.     *)
(* A directory has the id read_dir_id finds in it (NoId: no .awid file or  *)
(* a blank first line) and the rest of its contents as one token: << >>    *)
(* for no files at all, <<"A", n>> for what archive directory n held       *)
(* before the first run, <<"W", n>> for the contents of work directory n,  *)
(* <<"RA", n>> and <<"RW", n>> for those contents after the rename         *)
(* pre-pass has renamed files among them.                                  *)
(***************************************************************************)
Absent == [kind |-> "none", id |-> NoId, data |-> << >>]
Dir(i, d) == [kind |-> "dir", id |-> i, data |-> d]

WorkDirs(n) == {Dir(i, <<"W", n>>) : i \in {NoId} \cup Markers}
ArchDirs(n) == {Dir(NoId, << >>)} \cup {Dir(i, <<"A", n>>) : i \in {NoId} \cup Markers}

\* Path.exists() / Path.is_dir() on root / n
Exists(root, n) == root[n].kind = "dir"
SubDirs(root) == {n \in Names : Exists(root, n)}

\* a directory with no entries at all (not even .awid)
IsEmptyDir(d) == d.kind = "dir" /\ d.id = NoId /\ d.data = << >>

read_dir_id(root, n) == IF Exists(root, n) THEN root[n].id ELSE NoId

(***************************************************************************)
(* sorted(): Path objects under one parent compare by name, as strings.    *)
(***************************************************************************)
RECURSIVE LexLess(_, _)
LexLess(a, b) ==
    IF a = << >> THEN b # << >>
    ELSE IF b = << >> THEN FALSE
    ELSE IF Head(a) # Head(b) THEN Head(a) < Head(b)
    ELSE LexLess(Tail(a), Tail(b))

RECURSIVE Insert(_, _)
Insert(x, s) ==
    IF s = << >> THEN <<x>>
    ELSE IF LexLess(x, Head(s)) THEN <<x>> \o s
    ELSE <<Head(s)>> \o Insert(x, Tail(s))

RECURSIVE InsertionSort(_)
InsertionSort(s) ==
    IF s = << >> THEN << >> ELSE Insert(Head(s), InsertionSort(Tail(s)))

\* faulty variant: the listing is used in the order iterdir() gave it
UnsortedListing(s) == s

sorted(s) == InsertionSort(s)

\* iterdir(): the entries of a directory in an order the filesystem picks
Listings(S) ==
    {s \in [1..Cardinality(S) -> S] : \A i, j \in 1..Cardinality(S) : i # j => s[i] # s[j]}

(***************************************************************************)
(* State                                                                    *)
(***************************************************************************)
VARIABLES
    work,               \* work root: name -> directory
    arch,               \* archive root: name -> directory
    clock,              \* datetime.now(), counted in calls of mark_dir
    args,               \* parsed command line of the current run
    pc,                 \* position of the current run in main()
    known_archive_dirs, \* main's dict: id -> archive subdirectory name
    todo,               \* work subdirectories the scan loop has still to visit
    rsync_todo,         \* main's list of dict(work_path, archive_path)
    skipped,            \* main's list of dict(work_path, action)
    syncq,              \* entries of rsync_todo the rsync loop has still to run
    ret,                \* main's return value
    err,                \* the exception that ended the run, if any
    action,             \* name -> action logged for it in this run
    ops,                \* the filesystem calls of this run, in the order made
    seen,               \* what each scan iteration found: the id, and a same-named archive entry
    work0,              \* the work root when the current run started
    arch0,              \* the archive root when the current run started
    run,                \* number of the current run
    prev,               \* what the previous run planned and how it ended
    idfile,             \* one .awid file and what read_dir_id and its caller made of it
    prepass             \* one directory pair inside attempt_renames

vars == <<work, arch, clock, args, pc, known_archive_dirs, todo, rsync_todo, skipped,
          syncq, ret, err, action, ops, seen, work0, arch0, run, prev, idfile, prepass>>

\* the two variables above when no single file or pair is looked at
NoIdFile == [step |-> "idle"]
NoPrePass == [step |-> "idle"]

NoErr == "none"
Unscanned == "unscanned"
SkipActions == {"NEW_CONFLICT_SKIP", "CONFLICT_SKIP"}

\* parse_args: --dry-run, --mark-new, --mark SUBDIR_NAME, --rename, --report-skipped,
\* --test-no-rsync; with --mark, main() reads no option but --dry-run
ArgSets ==
    [dry_run : BOOLEAN, mark_new : BOOLEAN, mark : {NoName}, rename : BOOLEAN,
     report_skipped : BOOLEAN, test_no_rsync : BOOLEAN]
    \cup
    [dry_run : BOOLEAN, mark_new : {FALSE}, mark : Names, rename : {FALSE},
     report_skipped : {FALSE}, test_no_rsync : {FALSE}]

(***************************************************************************)
(* mark_dir(args, path1, path2): one fresh id, written to path1/.awid and, *)
(* when path2 is given, to path2/.awid.  open(.., "w") raises when the     *)
(* directory is missing; what was written before stays written.           *)
(***************************************************************************)
\* faulty variant: the id does not depend on the time of the call
ReusedId(clk) == NumMarkers

FreshId(clk) == NumMarkers + clk + 1

\* a logged filesystem call: "mark_work" and "mark_archive" write id to dst/.awid,
\* "rename" moves archive entry src to dst, "rename_files" renames files inside
\* archive entry dst, "rsync" mirrors work src to archive dst
Op(o, src, dst, i) == [op |-> o, src |-> src, dst |-> dst, id |-> i]

WriteId(root, n, i) == [root EXCEPT ![n].id = i]

MarkResult(w, a, clk, e, o) == [work |-> w, arch |-> a, clock |-> clk + 1, err |-> e, ops |-> o]

\* faulty variant: path2 is never written
WriteFirstOnly(w, a, clk, n1, n2) ==
    LET dir_id == FreshId(clk)
    IN  IF ~Exists(w, n1) THEN MarkResult(w, a, clk, "FileNotFoundError", << >>)
        ELSE MarkResult(WriteId(w, n1, dir_id), a, clk, NoErr,
                        << Op("mark_work", NoName, n1, dir_id) >>)

\* the loop over (path1, path2) with "if not args.dry_run" taken
WriteBoth(w, a, clk, n1, n2) ==
    LET dir_id == FreshId(clk)
    IN  IF ~Exists(w, n1) THEN MarkResult(w, a, clk, "FileNotFoundError", << >>)
        ELSE LET w1 == WriteId(w, n1, dir_id)
                 m1 == << Op("mark_work", NoName, n1, dir_id) >>
             IN  IF n2 = NoName THEN MarkResult(w1, a, clk, NoErr, m1)
                 ELSE IF ~Exists(a, n2) THEN MarkResult(w1, a, clk, "FileNotFoundError", m1)
                 ELSE MarkResult(w1, WriteId(a, n2, dir_id), clk, NoErr,
                                 Append(m1, Op("mark_archive", NoName, n2, dir_id)))

\* faulty variant: the dry-run test is missing
mark_dir_in_dry_run_too(dry_run, w, a, clk, n1, n2) == WriteBoth(w, a, clk, n1, n2)

mark_dir(dry_run, w, a, clk, n1, n2) ==
    IF dry_run THEN MarkResult(w, a, clk, NoErr, << >>)
    ELSE WriteBoth(w, a, clk, n1, n2)

(***************************************************************************)
(* os.rename(src, dst) of two entries of the archive root, on POSIX: it    *)
(* raises when src is missing or when dst is a directory with entries; an  *)
(* empty directory at dst is replaced.                                     *)
(***************************************************************************)
RenameError(a, src, dst) ==
    IF ~Exists(a, src) THEN "FileNotFoundError"
    ELSE IF Exists(a, dst) /\ ~IsEmptyDir(a[dst]) THEN "OSError"
    ELSE NoErr

os_rename(a, src, dst) == [a EXCEPT ![dst] = a[src], ![src] = Absent]

(***************************************************************************)
(* attempt_renames(args, work_path, archive_path): files that only the     *)
(* archive side has are renamed to the names of files of the same size     *)
(* that only the work side has, in the directory and its subdirectories.   *)
(* Nothing is a candidate when the target is missing, has no entries, or   *)
(* holds what the source holds.  Otherwise the listings decide: there may  *)
(* be no pair, some renames may go through, and a rename may raise (its    *)
(* source already moved by an earlier pair, its destination a directory),  *)
(* before or after others went through.  In a dry run nothing is renamed.  *)
(***************************************************************************)
Renamed(d) ==
    IF d[1] = "A" THEN <<"RA", d[2]>>
    ELSE IF d[1] = "W" THEN <<"RW", d[2]>>
    ELSE d

PrePassResult(a, e, o) == [arch |-> a, err |-> e, ops |-> o]

attempt_renames(dry_run, w, a, e) ==
    LET t == e.archive_path
    IN  IF ~Exists(a, t) THEN {PrePassResult(a, NoErr, << >>)}
        ELSE IF a[t].data = << >> \/ a[t].data = w[e.work_path].data \/ dry_run
             THEN {PrePassResult(a, NoErr, << >>)}
             ELSE LET moved == [a EXCEPT ![t].data = Renamed(a[t].data)]
                      o     == << Op("rename_files", NoName, t, NoId) >>
                  IN  {PrePassResult(a, NoErr, << >>),
                       PrePassResult(moved, NoErr, o),
                       PrePassResult(a, "OSError", << >>),
                       PrePassResult(moved, "OSError", o)}

(***************************************************************************)
(* rsync -a --delete work_path/ archive_path: the target gets the source's *)
(* contents, identity file included, and is created when missing.  With    *)
(* --dry-run rsync changes nothing.                                        *)
(***************************************************************************)
\* faulty variant: the identity file is left out of the mirror
rsync_dir_without_id(dry_run, w, a, e) ==
    IF dry_run \/ ~Exists(w, e.work_path) THEN a
    ELSE [a EXCEPT ![e.archive_path] = Dir(a[e.archive_path].id, w[e.work_path].data)]

rsync_dir(dry_run, w, a, e) ==
    IF dry_run \/ ~Exists(w, e.work_path) THEN a
    ELSE [a EXCEPT ![e.archive_path] = w[e.work_path]]

(***************************************************************************)
(* The index build of main(): the later directory in listing order wins.   *)
(***************************************************************************)
RECURSIVE BuildIndex(_, _, _)
BuildIndex(a, listing, known) ==
    IF listing = << >> THEN known
    ELSE LET n      == Head(listing)
             dir_id == read_dir_id(a, n)
         IN  BuildIndex(a, Tail(listing),
                        IF dir_id # NoId
                        THEN [m \in DOMAIN known \cup {dir_id} |->
                                 IF m = dir_id THEN n ELSE known[m]]
                        ELSE known)

EmptyIndex == [m \in {} |-> NoName]

\* faulty variant: the lookup never finds the id
LookupNeverFinds(known, m) == NoName

\* known_archive_dirs.get(work_dir_id, None)
Lookup(known, m) == IF m \in DOMAIN known THEN known[m] ELSE NoName

(***************************************************************************)
(* One iteration of the scan loop of main() for work subdirectory n.       *)
(* archive_subdir = NoName is the code's None: the entry goes to skipped.  *)
(***************************************************************************)
ScanResult(w, a, clk, e, o, act, sub) ==
    [work |-> w, arch |-> a, clock |-> clk, err |-> e, ops |-> o,
     action |-> act, archive_subdir |-> sub]

\* faulty variant: the RENAMED branch never assigns archive_subdir
RenamedTargetUnset(dry_run, n) == NoName

\* archive_subdir after the RENAMED branch: assigned under "if not dry_run" only
RenamedTarget(dry_run, n) == IF dry_run THEN NoName ELSE n

\* faulty variant: the same-named archive path is planned although the entry is skipped
SkipTargetSameName(n) == n

\* archive_subdir in the two SKIPPING branches: still the None of the loop's first line
SkipTarget(n) == NoName

ScanEntry(ar, w, a, clk, known, n) ==
    LET work_dir_id == read_dir_id(w, n)
    IN  IF work_dir_id = NoId
        THEN IF Exists(a, n)
             THEN IF ar.mark_new
                  THEN LET r == mark_dir(ar.dry_run, w, a, clk, n, n)
                       IN  ScanResult(r.work, r.arch, r.clock, r.err, r.ops,
                                      "NEW_CONFLICT_OVERWRITE", n)
                  ELSE ScanResult(w, a, clk, NoErr, << >>, "NEW_CONFLICT_SKIP", SkipTarget(n))
             ELSE LET r == mark_dir(ar.dry_run, w, a, clk, n, NoName)
                  IN  ScanResult(r.work, r.arch, r.clock, r.err, r.ops, "NEW", n)
        ELSE LET known_archive_subdir == Lookup(known, work_dir_id)
             IN  IF known_archive_subdir # NoName
                 THEN IF known_archive_subdir # n
                      THEN IF ar.dry_run
                           THEN ScanResult(w, a, clk, NoErr, << >>, "RENAMED",
                                           RenamedTarget(ar.dry_run, n))
                           ELSE IF RenameError(a, known_archive_subdir, n) # NoErr
                                THEN ScanResult(w, a, clk,
                                                RenameError(a, known_archive_subdir, n),
                                                << >>, "RENAMED", NoName)
                                ELSE ScanResult(w, os_rename(a, known_archive_subdir, n), clk,
                                                NoErr,
                                                << Op("rename", known_archive_subdir, n, NoId) >>,
                                                "RENAMED", RenamedTarget(ar.dry_run, n))
                      ELSE ScanResult(w, a, clk, NoErr, << >>, "RESYNC", known_archive_subdir)
                 ELSE IF Exists(a, n)
                      THEN ScanResult(w, a, clk, NoErr, << >>, "CONFLICT_SKIP", SkipTarget(n))
                      ELSE ScanResult(w, a, clk, NoErr, << >>, "RESTORE", n)

(***************************************************************************)
(* Initial states: any two roots with at most MaxDirs subdirectories, and  *)
(* any command line.                                                       *)
(***************************************************************************)
NotVisited == [visited |-> FALSE, id |-> NoId, same_name |-> FALSE]
NoPrev ==
    [ran |-> FALSE, pc |-> "start", args |-> [dry_run |-> FALSE, mark_new |-> FALSE,
                                             mark |-> NoName, rename |-> FALSE,
                                             report_skipped |-> FALSE,
                                             test_no_rsync |-> FALSE],
     known_archive_dirs |-> EmptyIndex, rsync_todo |-> << >>, skipped |-> << >>,
     action |-> [n \in Names |-> Unscanned], work0 |-> [n \in Names |-> Absent],
     arch0 |-> [n \in Names |-> Absent]]

RunStart(ar) ==
    /\ args = ar
    /\ pc = "start"
    /\ known_archive_dirs = EmptyIndex
    /\ todo = << >>
    /\ rsync_todo = << >>
    /\ skipped = << >>
    /\ syncq = << >>
    /\ ret = 0
    /\ err = NoErr
    /\ action = [n \in Names |-> Unscanned]
    /\ ops = << >>
    /\ seen = [n \in Names |-> NotVisited]

InitDirs(max, argsets) ==
    /\ work \in [Names -> {Absent} \cup UNION {WorkDirs(n) : n \in Names}]
    /\ \A n \in Names : work[n] \in {Absent} \cup WorkDirs(n)
    /\ arch \in [Names -> {Absent} \cup UNION {ArchDirs(n) : n \in Names}]
    /\ \A n \in Names : arch[n] \in {Absent} \cup ArchDirs(n)
    /\ Cardinality(SubDirs(work)) + Cardinality(SubDirs(arch)) <= max
    /\ clock = 0
    /\ work0 = work
    /\ arch0 = arch
    /\ run = 1
    /\ prev = NoPrev
    /\ idfile = NoIdFile
    /\ prepass = NoPrePass
    /\ \E ar \in argsets : RunStart(ar)

Init == InitDirs(MaxDirs, ArgSets)

(***************************************************************************)
(* main(), --mark SUBDIR_NAME: mark the two directories and return.        *)
(***************************************************************************)
MarkSingle ==
    /\ pc = "start"
    /\ args.mark # NoName
    /\ LET r == mark_dir(args.dry_run, work, arch, clock, args.mark, args.mark)
       IN  /\ work' = r.work
           /\ arch' = r.arch
           /\ clock' = r.clock
           /\ ops' = r.ops
           /\ err' = r.err
           /\ pc' = IF r.err = NoErr THEN "done" ELSE "aborted"
    /\ UNCHANGED <<args, known_archive_dirs, todo, rsync_todo, skipped, syncq, ret, action,
                   seen, work0, arch0, run, prev, idfile, prepass>>

(***************************************************************************)
(* main(): collect the known archive subdirectories and list the work root *)
(***************************************************************************)
Collect ==
    /\ pc = "start"
    /\ args.mark = NoName
    /\ \E al \in Listings(SubDirs(arch)), wl \in Listings(SubDirs(work)) :
          /\ known_archive_dirs' = BuildIndex(arch, al, EmptyIndex)
          /\ todo' = sorted(wl)
    /\ pc' = "scan"
    /\ UNCHANGED <<work, arch, clock, args, rsync_todo, skipped, syncq, ret, err, action,
                   ops, seen, work0, arch0, run, prev, idfile, prepass>>

(***************************************************************************)
(* main(): one iteration of "for work_dir in sorted(...)"                  *)
(***************************************************************************)
Scan ==
    /\ pc = "scan"
    /\ todo # << >>
    /\ LET n == Head(todo)
           r == ScanEntry(args, work, arch, clock, known_archive_dirs, n)
       IN  /\ seen' = [seen EXCEPT ![n] =
                          [visited |-> TRUE, id |-> read_dir_id(work, n),
                           same_name |-> Exists(arch, n)]]
           /\ work' = r.work
           /\ arch' = r.arch
           /\ clock' = r.clock
           /\ ops' = ops \o r.ops
           /\ err' = r.err
           /\ IF r.err # NoErr
              THEN /\ pc' = "aborted"
                   /\ UNCHANGED <<todo, rsync_todo, skipped, action>>
              ELSE /\ pc' = "scan"
                   /\ todo' = Tail(todo)
                   /\ action' = [action EXCEPT ![n] = r.action]
                   /\ IF r.archive_subdir # NoName
                      THEN /\ rsync_todo' = Append(rsync_todo,
                                               [work_path |-> n,
                                                archive_path |-> r.archive_subdir])
                           /\ UNCHANGED skipped
                      ELSE /\ skipped' = Append(skipped,
                                                [work_path |-> n, action |-> r.action])
                           /\ UNCHANGED rsync_todo
    /\ UNCHANGED <<args, known_archive_dirs, syncq, ret, work0, arch0, run, prev, idfile, prepass>>

\* main(): the scan loop is over, the rsync loop starts
ScanDone ==
    /\ pc = "scan"
    /\ todo = << >>
    /\ pc' = "sync"
    /\ syncq' = rsync_todo
    /\ UNCHANGED <<work, arch, clock, args, known_archive_dirs, todo, rsync_todo, skipped,
                   ret, err, action, ops, seen, work0, arch0, run, prev, idfile, prepass>>

(***************************************************************************)
(* main(): one iteration of "for rsync_args in rsync_todo"                 *)
(***************************************************************************)
Sync ==
    /\ pc = "sync"
    /\ syncq # << >>
    /\ LET e == Head(syncq)
       IN  \E r \in (IF args.rename
                     THEN attempt_renames(args.dry_run, work, arch, e)
                     ELSE {PrePassResult(arch, NoErr, << >>)}) :
              IF r.err # NoErr
              THEN /\ arch' = r.arch
                   /\ ops' = ops \o r.ops
                   /\ err' = r.err
                   /\ pc' = "aborted"
                   /\ UNCHANGED syncq
              ELSE /\ IF args.test_no_rsync
                      THEN /\ arch' = r.arch
                           /\ ops' = ops \o r.ops
                      ELSE /\ arch' = rsync_dir(args.dry_run, work, r.arch, e)
                           /\ ops' = Append(ops \o r.ops,
                                            Op("rsync", e.work_path, e.archive_path, NoId))
                   /\ syncq' = Tail(syncq)
                   /\ UNCHANGED <<err, pc>>
    /\ UNCHANGED <<work, clock, args, known_archive_dirs, todo, rsync_todo, skipped,
                   ret, action, seen, work0, arch0, run, prev, idfile, prepass>>

(***************************************************************************)
(* main(): report the skipped directories and return                       *)
(***************************************************************************)
Report ==
    /\ pc = "sync"
    /\ syncq = << >>
    /\ ret' = IF skipped # << >> /\ args.report_skipped THEN 1 ELSE 0
    /\ pc' = "done"
    /\ UNCHANGED <<work, arch, clock, args, known_archive_dirs, todo, rsync_todo, skipped,
                   syncq, err, action, ops, seen, work0, arch0, run, prev, idfile, prepass>>

Next == MarkSingle \/ Collect \/ Scan \/ ScanDone \/ Sync \/ Report

Spec == Init /\ [][Next]_vars

(***************************************************************************)
(* A second invocation of main() on the same roots, nothing else having   *)
(* touched them in between.  The two runs are taken without                *)
(* --report-skipped, which only sets the return value, and without the     *)
(* hidden --test-no-rsync.                                                 *)
(***************************************************************************)
RerunArgSets == {ar \in ArgSets : ~ar.report_skipped /\ ~ar.test_no_rsync}

NextRun ==
    /\ pc \in {"done", "aborted", "killed"}
    /\ run = 1
    /\ run' = run + 1
    /\ prev' = [ran |-> TRUE, pc |-> pc, args |-> args,
                known_archive_dirs |-> known_archive_dirs, rsync_todo |-> rsync_todo,
                skipped |-> skipped, action |-> action, work0 |-> work0, arch0 |-> arch0]
    /\ work0' = work
    /\ arch0' = arch
    /\ args' \in RerunArgSets
    /\ pc' = "start"
    /\ known_archive_dirs' = EmptyIndex
    /\ todo' = << >>
    /\ rsync_todo' = << >>
    /\ skipped' = << >>
    /\ syncq' = << >>
    /\ ret' = 0
    /\ err' = NoErr
    /\ action' = [n \in Names |-> Unscanned]
    /\ ops' = << >>
    /\ seen' = [n \in Names |-> NotVisited]
    /\ UNCHANGED <<work, arch, clock, idfile, prepass>>

NextRerun == Next \/ NextRun

InitRerun == InitDirs(MaxRerunDirs, RerunArgSets)

SpecRerun == InitRerun /\ [][NextRerun]_vars

(***************************************************************************)
(* The process is killed between two filesystem calls of a real run:       *)
(* between two iterations of the scan loop or of the rsync loop, or inside *)
(* mark_dir after path1/.awid is written and before path2/.awid is.        *)
(***************************************************************************)
Kill ==
    /\ pc \in {"scan", "sync"}
    /\ ~args.dry_run
    /\ pc' = "killed"
    /\ UNCHANGED <<work, arch, clock, args, known_archive_dirs, todo, rsync_todo, skipped,
                   syncq, ret, err, action, ops, seen, work0, arch0, run, prev, idfile, prepass>>

\* the call sites of mark_dir with a path2: --mark, and the NEW OVERWRITING branch
MarkingBoth(n) ==
    \/ pc = "start" /\ args.mark = n
    \/ /\ pc = "scan" /\ todo # << >> /\ Head(todo) = n
       /\ read_dir_id(work, n) = NoId /\ Exists(arch, n) /\ args.mark_new

KillInMark ==
    /\ ~args.dry_run
    /\ \E n \in Names :
          /\ MarkingBoth(n)
          /\ Exists(work, n)
          /\ work' = WriteId(work, n, FreshId(clock))
          /\ ops' = Append(ops, Op("mark_work", NoName, n, FreshId(clock)))
    /\ clock' = clock + 1
    /\ pc' = "killed"
    /\ UNCHANGED <<arch, args, known_archive_dirs, todo, rsync_todo, skipped,
                   syncq, ret, err, action, seen, work0, arch0, run, prev, idfile, prepass>>

NextKill == NextRerun \/ Kill \/ KillInMark

SpecKill == InitRerun /\ [][NextKill]_vars

\* the scan loop of main() run from start to end: the sync_plan of a run that
\* nothing interrupts, and the exception that ends it, if any
RECURSIVE FullScan(_, _, _, _, _, _, _)
FullScan(ar, w, a, clk, known, names, plan) ==
    IF names = << >> THEN [err |-> NoErr, rsync_todo |-> plan]
    ELSE LET n == Head(names)
             r == ScanEntry(ar, w, a, clk, known, n)
         IN  IF r.err # NoErr THEN [err |-> r.err, rsync_todo |-> plan]
             ELSE FullScan(ar, r.work, r.arch, r.clock, known, Tail(names),
                           IF r.archive_subdir # NoName
                           THEN Append(plan, [work_path |-> n,
                                              archive_path |-> r.archive_subdir])
                           ELSE plan)

(***************************************************************************)
(* read_dir_id(path) on one identity file, and what its caller in main()   *)
(* does with the outcome.  A file is a sequence of bytes: letters, blanks, *)
(* line ends, and a byte that does not decode.  open() raises on a file    *)
(* the process may not read; the text layer decodes a small file as a      *)
(* whole, so a byte that does not decode raises wherever it stands.        *)
(***************************************************************************)
MaxIdLen == 4

Undecodable == "0xff"
IdBytes == {"x", "y", " ", "\n", Undecodable}
IdFiles ==
    [mode : {"absent"}, content : {<< >>}]
    \cup [mode : {"readable", "unreadable"},
          content : UNION {[1..k -> IdBytes] : k \in 0..MaxIdLen}]

\* the value None, and the empty string that read_dir_id turns into it
None == << >>

IsSpace(ch) == ch \in {" ", "\n"}

\* f.readline(): up to and including the first line end
RECURSIVE readline(_)
readline(c) ==
    IF c = << >> THEN << >>
    ELSE IF Head(c) = "\n" THEN << "\n" >>
    ELSE << Head(c) >> \o readline(Tail(c))

RECURSIVE lstrip(_)
lstrip(c) == IF c # << >> /\ IsSpace(Head(c)) THEN lstrip(Tail(c)) ELSE c

RECURSIVE rstrip(_)
rstrip(c) ==
    IF c # << >> /\ IsSpace(c[Len(c)]) THEN rstrip(SubSeq(c, 1, Len(c) - 1)) ELSE c

strip(c) == rstrip(lstrip(c))

IdResult(e, i) == [raised |-> e, dir_id |-> i]

ReadResult(f) ==
    IF f.mode = "absent" THEN IdResult(NoErr, None)
    ELSE IF f.mode = "unreadable" THEN IdResult("PermissionError", None)
    ELSE IF \E i \in 1..Len(f.content) : f.content[i] = Undecodable
         THEN IdResult("UnicodeDecodeError", None)
         ELSE IdResult(NoErr, strip(readline(f.content)))

\* everything of a run of main() at rest, while one file or one pair is looked at
MainIdle ==
    /\ work = [n \in Names |-> Absent]
    /\ arch = [n \in Names |-> Absent]
    /\ clock = 0
    /\ work0 = work
    /\ arch0 = arch
    /\ run = 1
    /\ prev = NoPrev
    /\ RunStart(NoPrev.args)

mainvars == <<work, arch, clock, args, pc, known_archive_dirs, todo, rsync_todo, skipped,
              syncq, ret, err, action, ops, seen, work0, arch0, run, prev>>

InitReadId ==
    /\ MainIdle
    /\ prepass = NoPrePass
    /\ \E f \in IdFiles :
          idfile = [step |-> "file", mode |-> f.mode, content |-> f.content,
                    raised |-> NoErr, dir_id |-> None, marked |-> FALSE]

\* the call read_dir_id(archive_dir) or read_dir_id(work_dir)
ReadIdFile ==
    /\ idfile.step = "file"
    /\ LET r == ReadResult(idfile)
       IN  idfile' = [idfile EXCEPT !.step = "read", !.raised = r.raised,
                                    !.dir_id = r.dir_id]
    /\ UNCHANGED <<mainvars, prepass>>

\* main(): no handler around the call, so an exception ends the run; otherwise
\* "if dir_id:" and "if not work_dir_id:" take the directory as marked or not
Classify ==
    /\ idfile.step = "read"
    /\ idfile' = IF idfile.raised # NoErr
                 THEN [idfile EXCEPT !.step = "aborted"]
                 ELSE [idfile EXCEPT !.step = "classified",
                                     !.marked = (idfile.dir_id # None)]
    /\ UNCHANGED <<mainvars, prepass>>

NextReadId == ReadIdFile \/ Classify

SpecReadId == InitReadId /\ [][NextReadId]_vars

(***************************************************************************)
(* attempt_renames(args, work_path, archive_path) on the plain files of    *)
(* one directory pair.  A listing maps a file name to the file's size, 0   *)
(* for a name the directory does not have.  The candidates are built from  *)
(* set differences, so their order is any order.                           *)
(***************************************************************************)
MaxSize == 2

FileNames == {"p", "q", "r"}
FileListings == [FileNames -> 0..MaxSize]

Files(l) == {f \in FileNames : l[f] # 0}

\* id_to_arch = {get_stat_id(p): p for p in arch_candidates}: the later file wins
RECURSIVE IdToArch(_, _, _)
IdToArch(l, cands, d) ==
    IF cands = << >> THEN d
    ELSE IdToArch(l, Tail(cands),
                  [z \in DOMAIN d \cup {l[Head(cands)]} |->
                      IF z = l[Head(cands)] THEN Head(cands) ELSE d[z]])

NoFileIndex == [z \in {} |-> "p"]

InitRenames ==
    /\ MainIdle
    /\ idfile = NoIdFile
    /\ \E wf \in FileListings, af \in FileListings, d \in BOOLEAN :
          prepass = [step |-> "called", dry_run |-> d, work_files |-> wf,
                     arch_files |-> af, arch_files0 |-> af, work_to_id |-> << >>,
                     id_to_arch |-> NoFileIndex, renamed |-> << >>, err |-> NoErr]

\* from the two listings to the two dicts, or the early return
ListCandidates ==
    /\ prepass.step = "called"
    /\ LET work_fnames == Files(prepass.work_files)
           arch_fnames == Files(prepass.arch_files)
       IN  \E wc \in Listings(work_fnames \ arch_fnames),
              ac \in Listings(arch_fnames \ work_fnames) :
              prepass' = IF wc = << >> \/ ac = << >>
                         THEN [prepass EXCEPT !.step = "returned"]
                         ELSE [prepass EXCEPT !.step = "loop", !.work_to_id = wc,
                                  !.id_to_arch = IdToArch(prepass.arch_files, ac, NoFileIndex)]
    /\ UNCHANGED <<mainvars, idfile>>

\* one iteration of "for work, fid in work_to_id.items()"
RenameFile ==
    /\ prepass.step = "loop"
    /\ prepass.work_to_id # << >>
    /\ LET wname == Head(prepass.work_to_id)
           fid   == prepass.work_files[wname]
           rest  == [prepass EXCEPT !.work_to_id = Tail(prepass.work_to_id)]
       IN  IF fid \notin DOMAIN prepass.id_to_arch
           THEN prepass' = rest
           ELSE LET src == prepass.id_to_arch[fid]
                IN  IF prepass.dry_run
                    THEN prepass' = rest
                    ELSE IF prepass.arch_files[src] = 0
                         THEN prepass' = [prepass EXCEPT !.step = "raised",
                                                         !.err = "FileNotFoundError"]
                         ELSE prepass' =
                                 [rest EXCEPT !.arch_files =
                                                 [prepass.arch_files EXCEPT
                                                     ![wname] = prepass.arch_files[src],
                                                     ![src] = 0],
                                              !.renamed = Append(prepass.renamed,
                                                                 [src |-> src, dst |-> wname])]
    /\ UNCHANGED <<mainvars, idfile>>

\* the loop is over
RenamesDone ==
    /\ prepass.step = "loop"
    /\ prepass.work_to_id = << >>
    /\ prepass' = [prepass EXCEPT !.step = "returned"]
    /\ UNCHANGED <<mainvars, idfile>>

NextRenames == ListCandidates \/ RenameFile \/ RenamesDone

SpecRenames == InitRenames /\ [][NextRenames]_vars

(***************************************************************************)
(* Properties                                                               *)
(***************************************************************************)
FullRun == args.mark = NoName
RealRun == ~args.dry_run
\* the scan loop ran to its end; the run may since have ended in the rsync loop
ScanOver == FullRun /\ (pc \in {"sync", "done"} \/ (pc = "aborted" /\ todo = << >>))
\* an exception ended the run inside the scan loop
ScanAborted == FullRun /\ pc = "aborted" /\ todo # << >>
Ended == pc \in {"done", "aborted"}

OpsOf(kind) == {i \in 1..Len(ops) : ops[i].op = kind}
Planned(plan, n) == {i \in 1..Len(plan) : plan[i].work_path = n}

\* the current run is the real twin of the dry run before it: same roots, same index,
\* same options but --dry-run
RealAfterDry ==
    /\ prev.ran
    /\ prev.pc = "done"
    /\ prev.args.dry_run
    /\ prev.args.mark = NoName
    /\ args = [prev.args EXCEPT !.dry_run = FALSE]
    /\ work0 = prev.work0
    /\ arch0 = prev.arch0
    /\ known_archive_dirs = prev.known_archive_dirs

\* C1: a dry run and a real run started from the same state log the same action for
\* every work subdirectory and build the same sync_plan and the same skipped_list.
C1_DryRunSameDecisions ==
    (RealAfterDry /\ ScanOver) =>
        /\ action = prev.action
        /\ rsync_todo = prev.rsync_todo
        /\ skipped = prev.skipped

\* C2: a dry run, whatever its other options (--mark-new, --mark, --rename), writes
\* no identity file, renames no archive subdirectory and no archive file, and leaves
\* both roots as they were; rsync is called with --dry-run only.
C2_DryRunChangesNothing ==
    args.dry_run =>
        /\ work = work0
        /\ arch = arch0
        /\ OpsOf("mark_work") = {}
        /\ OpsOf("mark_archive") = {}
        /\ OpsOf("rename") = {}
        /\ OpsOf("rename_files") = {}
        /\ err = NoErr

C2_Witness ==
    /\ pc = "done"
    /\ args.dry_run
    /\ args.rename
    /\ \E i \in 1..Len(rsync_todo) :
          /\ Exists(arch, rsync_todo[i].archive_path)
          /\ arch[rsync_todo[i].archive_path].data \notin
                 {<< >>, work[rsync_todo[i].work_path].data}
    /\ \E n \in Names : action[n] = "RENAMED"
    /\ \E n \in Names : action[n] = "NEW_CONFLICT_OVERWRITE"
    /\ OpsOf("rsync") # {}

UniqueIds(root) ==
    \A n, m \in SubDirs(root) : (n # m /\ root[n].id # NoId) => root[n].id # root[m].id

\* the run before the current one was a real full run that reached its end, rsync included
FirstRunComplete ==
    /\ prev.ran
    /\ prev.pc = "done"
    /\ ~prev.args.dry_run
    /\ ~prev.args.test_no_rsync
    /\ prev.args.mark = NoName

PrevPlanNames == {prev.rsync_todo[i].work_path : i \in 1..Len(prev.rsync_todo)}

AllResync == \A n \in PrevPlanNames : action[n] = "RESYNC"

\* the entries of the current sync_plan that the previous sync_plan had too, in order
KeptPlan ==
    LET Kept(e) == e.work_path \in PrevPlanNames
    IN  SelectSeq(rsync_todo, Kept)

\* C3 as stated: after a complete real run, a second run with the same options logs
\* RESYNC for every entry of the first sync_plan and builds the very same sync_plan.
C3_SecondRunSamePlan ==
    (FirstRunComplete /\ args = prev.args /\ Ended) =>
        /\ AllResync
        /\ rsync_todo = prev.rsync_todo

\* C3, amended: when no two work subdirectories and no two archive subdirectories
\* shared a marker before the first run, the scan of the second full run reaches
\* its end, logs RESYNC for every entry of the first sync_plan and lists those
\* entries with the same targets in the same order, whatever its options; entries
\* the first run skipped may be added.  The run then ends without an exception
\* unless it has both --rename and --mark-new.
C3_SecondRunResyncs ==
    (FirstRunComplete /\ FullRun /\ Ended /\ UniqueIds(prev.work0) /\ UniqueIds(prev.arch0)) =>
        /\ ScanOver
        /\ AllResync
        /\ KeptPlan = prev.rsync_todo
        /\ ~(args.rename /\ args.mark_new) => pc = "done"

C3_Witness ==
    /\ FirstRunComplete /\ FullRun /\ pc = "done"
    /\ UniqueIds(prev.work0) /\ UniqueIds(prev.arch0)
    /\ \E n \in Names : prev.action[n] = "RENAMED"
    /\ Len(rsync_todo) > Len(prev.rsync_todo)

\* the scan loop is about to visit n, whose marker the index maps to another name
IndexedAs(n, b) ==
    /\ pc = "scan" /\ todo # << >> /\ Head(todo) = n
    /\ work[n].id # NoId
    /\ work[n].id \in DOMAIN known_archive_dirs
    /\ known_archive_dirs[work[n].id] = b
    /\ b # n

\* what the iteration does when the rename goes through; no rsync call was made before
RenamedAndPlanned(n, b) ==
    /\ action'[n] = "RENAMED"
    /\ arch' = [arch EXCEPT ![n] = arch[b], ![b] = Absent]
    /\ ops' = Append(ops, Op("rename", b, n, NoId))
    /\ rsync_todo' = Append(rsync_todo, [work_path |-> n, archive_path |-> n])
    /\ skipped' = skipped
    /\ OpsOf("rsync") = {}

\* what the iteration does when os.rename raises
RenameAborts(n) ==
    /\ pc' = "aborted"
    /\ err' \in {"OSError", "FileNotFoundError"}
    /\ arch' = arch
    /\ rsync_todo' = rsync_todo
    /\ skipped' = skipped
    /\ ops' = ops
    /\ OpsOf("rsync") = {}

\* C4 as stated: in a real run, a work subdirectory whose marker the index maps to
\* another archive name b is logged RENAMED, b is renamed to the work name, the
\* planned target is archive_root/<work name>, and no rsync call came earlier.
C4_RenamedBeforeSync ==
    [][\A n, b \in Names : (RealRun /\ IndexedAs(n, b)) => RenamedAndPlanned(n, b)]_vars

\* C4, amended: the above holds when b still exists in the archive and the archive
\* has no entry of the work name other than an empty directory; otherwise os.rename
\* raises and the run ends there, before any rsync call, the archive left as it was.
C4_RenamedOrAborted ==
    [][\A n, b \in Names : (RealRun /\ IndexedAs(n, b)) =>
          IF Exists(arch, b) /\ (~Exists(arch, n) \/ IsEmptyDir(arch[n]))
          THEN RenamedAndPlanned(n, b)
          ELSE RenameAborts(n)]_vars

C4_Witness ==
    /\ RealRun /\ FullRun /\ pc = "done"
    /\ \E n \in Names : action[n] = "RENAMED" /\ Planned(rsync_todo, n) # {}
    /\ \E i \in OpsOf("rename"), j \in OpsOf("rsync") :
          i < j /\ ops[j].dst = ops[i].dst /\ ~Exists(arch, ops[i].src)

\* an archive subdirectory, as the run found it, that no work subdirectory claims
Unclaimed(n) ==
    /\ Exists(arch0, n)
    /\ \/ arch0[n].id = NoId
       \/ \A m \in SubDirs(work0) : work0[m].id # arch0[n].id

Untouched(n) ==
    /\ arch[n] = arch0[n]
    /\ \A i \in OpsOf("rename") : ops[i].src # n /\ ops[i].dst # n
    /\ \A i \in OpsOf("rsync") \cup OpsOf("rename_files") : ops[i].dst # n
    /\ \A i \in OpsOf("mark_archive") : ops[i].dst # n

\* C5: in a real full run without --mark-new, an archive subdirectory that is
\* unmarked or whose marker no work subdirectory carries keeps its name, contents
\* and marker, and is neither renamed, nor renamed over, nor an rsync target.
C5_UnclaimedArchiveUntouched ==
    (RealRun /\ FullRun /\ ~args.mark_new) => \A n \in Names : Unclaimed(n) => Untouched(n)

NoOpOn(n) ==
    /\ \A i \in OpsOf("mark_work") \cup OpsOf("mark_archive") : ops[i].dst # n
    /\ \A i \in OpsOf("rsync") : ops[i].src # n /\ ops[i].dst # n
    /\ \A i \in OpsOf("rename") \cup OpsOf("rename_files") : ops[i].dst # n

\* the archive subdirectory n has gone to the name of a later work subdirectory
\* that carries its marker
RenamedAway(n) ==
    /\ ~Exists(arch, n)
    /\ \E i \in OpsOf("rename") :
          /\ ops[i].src = n
          /\ LexLess(n, ops[i].dst)
          /\ arch0[n].id # NoId
          /\ work0[ops[i].dst].id = arch0[n].id

\* C6 as stated: a work subdirectory that the run skips and the archive
\* subdirectory of its name stay as they were: no marker written, no rename of the
\* archive subdirectory, no rsync call with either of them.
C6_SkippedPairUntouched ==
    FullRun => \A n \in Names : action[n] \in SkipActions =>
        /\ work[n] = work0[n]
        /\ arch[n] = arch0[n]
        /\ NoOpOn(n)
        /\ \A i \in OpsOf("rename") : ops[i].src # n

\* C6, amended: the skipped work subdirectory stays as it was, no marker is written
\* to it or to the archive subdirectory of its name, no rsync call names either, and
\* nothing is renamed onto that archive name; the archive subdirectory itself stays
\* as it was unless a later work subdirectory carries its marker, in which case it
\* is renamed to that subdirectory's name.
C6_SkippedPairUntouchedOrRenamedAway ==
    FullRun => \A n \in Names : action[n] \in SkipActions =>
        /\ work[n] = work0[n]
        /\ NoOpOn(n)
        /\ arch[n] = arch0[n] \/ RenamedAway(n)

C6_Witness ==
    /\ RealRun /\ FullRun /\ pc = "done"
    /\ OpsOf("rsync") # {}
    /\ \E n \in Names : action[n] \in SkipActions /\ RenamedAway(n)

\* the scan loop is about to visit the unmarked n, whose name the archive root has
UnmarkedWithSameName(n) ==
    /\ pc = "scan" /\ todo # << >> /\ Head(todo) = n
    /\ work[n].id = NoId
    /\ Exists(arch, n)

IdsOnDisk == {work[n].id : n \in Names} \cup {arch[n].id : n \in Names}

\* C7: in a real run with --mark-new, an unmarked work subdirectory whose name the
\* archive root already has is logged NEW_CONFLICT_OVERWRITE, one fresh marker is
\* written to both directories (over any marker of the archive one), and
\* (work path, archive_root/name) is appended to sync_plan.
C7_OverwriteMarksBoth ==
    [][\A n \in Names : (RealRun /\ args.mark_new /\ UnmarkedWithSameName(n)) =>
          /\ action'[n] = "NEW_CONFLICT_OVERWRITE"
          /\ work'[n].id \notin IdsOnDisk
          /\ work' = [work EXCEPT ![n].id = work'[n].id]
          /\ arch' = [arch EXCEPT ![n].id = work'[n].id]
          /\ ops' = ops \o << Op("mark_work", NoName, n, work'[n].id),
                              Op("mark_archive", NoName, n, work'[n].id) >>
          /\ rsync_todo' = Append(rsync_todo, [work_path |-> n, archive_path |-> n])
          /\ skipped' = skipped]_vars

C7_Witness ==
    /\ RealRun /\ args.mark_new /\ pc = "done"
    /\ \E n \in Names :
          /\ action[n] = "NEW_CONFLICT_OVERWRITE"
          /\ arch0[n].id # NoId
          /\ work[n].id = arch[n].id
          /\ work[n].id \notin {NoId} \cup Markers
          /\ Planned(rsync_todo, n) # {}

\* the decision table of the scan: marker present?, marker in the index?, indexed
\* name equal to the work name?, same-named archive entry present?, --mark-new?
Decision(n, id, same_name, mark_new) ==
    IF id = NoId
    THEN IF ~same_name THEN "NEW"
         ELSE IF mark_new THEN "NEW_CONFLICT_OVERWRITE" ELSE "NEW_CONFLICT_SKIP"
    ELSE IF id \in DOMAIN known_archive_dirs
         THEN IF known_archive_dirs[id] = n THEN "RESYNC" ELSE "RENAMED"
         ELSE IF same_name THEN "CONFLICT_SKIP" ELSE "RESTORE"

DecidedByTable(n) ==
    /\ seen[n].visited
    /\ action[n] = Decision(n, seen[n].id, seen[n].same_name, args.mark_new)

\* n is in exactly one of the two lists, once, as its action says
ListedOnce(n) ==
    IF action[n] \in SkipActions
    THEN /\ Cardinality(Planned(skipped, n)) = 1
         /\ Planned(rsync_todo, n) = {}
         /\ \A i \in Planned(skipped, n) : skipped[i].action = action[n]
    ELSE /\ Cardinality(Planned(rsync_todo, n)) = 1
         /\ Planned(skipped, n) = {}
         /\ \A i \in Planned(rsync_todo, n) : rsync_todo[i].archive_path = n

NotListed(n) == Planned(rsync_todo, n) = {} /\ Planned(skipped, n) = {}

\* C8 as stated: in a real run every work subdirectory is visited once and gets
\* the action of the decision table; it is in sync_plan with target
\* archive_root/<name> unless the action is a skip, and in skipped_list otherwise.
C8_EveryEntryDecided ==
    (RealRun /\ FullRun /\ (ScanOver \/ Ended)) =>
        /\ \A n \in SubDirs(work0) : DecidedByTable(n) /\ ListedOnce(n)
        /\ \A n \in Names \ SubDirs(work0) : NotListed(n)

\* C8, amended: the above holds in every real run whose scan no failing rename
\* ends; when os.rename raises, the run ends at that entry: the entries visited
\* before it have their table action and are in exactly one list, the failing
\* entry (RENAMED by the table) and the later ones are in neither.
C8_EveryVisitedEntryDecided ==
    (RealRun /\ FullRun) =>
        /\ ScanOver => \A n \in SubDirs(work0) : action[n] # Unscanned
        /\ \A n \in Names :
              IF action[n] # Unscanned
              THEN n \in SubDirs(work0) /\ DecidedByTable(n) /\ ListedOnce(n)
              ELSE NotListed(n)
        /\ pc = "aborted" => (ScanOver /\ args.rename /\ syncq # << >>) \/ ScanAborted
        /\ ScanAborted =>
              /\ err \in {"OSError", "FileNotFoundError"}
              /\ action[Head(todo)] = Unscanned
              /\ Decision(Head(todo), seen[Head(todo)].id, seen[Head(todo)].same_name,
                          args.mark_new) = "RENAMED"
              /\ \A n \in SubDirs(work0) :
                    action[n] = Unscanned <=> \E i \in 1..Len(todo) : todo[i] = n

C8_Witness ==
    /\ RealRun /\ FullRun /\ pc = "done"
    /\ \E n \in Names : action[n] = "RENAMED"
    /\ \E n \in Names : action[n] \in SkipActions
    /\ \E n \in Names : action[n] \in {"NEW", "RESTORE", "RESYNC"}

Ascending(plan) ==
    \A i, j \in 1..Len(plan) : i < j => LexLess(plan[i].work_path, plan[j].work_path)

\* C9: whatever the order in which the two roots are listed, sync_plan and
\* skipped_list are each in ascending order of work-subdirectory name.
C9_PlansSorted == Ascending(rsync_todo) /\ Ascending(skipped)

C9_Witness ==
    /\ pc = "done"
    /\ Len(rsync_todo) >= 2
    /\ Len(skipped) >= 1

\* C10: a real run with --mark N gives work subdirectory N a fresh marker, gives
\* archive subdirectory N the same marker when it exists and returns without error
\* when it does not; nothing else is marked, renamed or mirrored.
C10_MarkSingle ==
    (RealRun /\ ~FullRun /\ Exists(work0, args.mark) /\ Ended) =>
        /\ pc = "done"
        /\ err = NoErr
        /\ work[args.mark].id \notin {work0[n].id : n \in Names} \cup {arch0[n].id : n \in Names}
        /\ work = [work0 EXCEPT ![args.mark].id = work[args.mark].id]
        /\ arch = IF Exists(arch0, args.mark)
                  THEN [arch0 EXCEPT ![args.mark].id = work[args.mark].id]
                  ELSE arch0
        /\ OpsOf("rsync") = {}
        /\ OpsOf("rename") = {}
        /\ OpsOf("rename_files") = {}
        /\ rsync_todo = << >>
        /\ \A n \in Names : ~seen[n].visited

\* C11: a completed full run, dry or real, returns non-zero exactly when
\* --report-skipped was given and some work subdirectory was logged
\* NEW_CONFLICT_SKIP or CONFLICT_SKIP; otherwise it returns 0.
C11_ExitCode ==
    (FullRun /\ pc = "done") =>
        /\ ret \in {0, 1}
        /\ ret = 1 <=> (args.report_skipped /\ \E n \in Names : action[n] \in SkipActions)

\* C12: in a real run, when the scan is about to visit a work subdirectory whose
\* marker the index maps to another archive name while the archive root has an
\* entry of the work name, os.rename raises and the run ends there: the archive
\* is left as it was, the entry is in neither list and no rsync call is ever made.
C12_RenameOntoExistingAborts ==
    [][\A n, b \in Names : (RealRun /\ IndexedAs(n, b) /\ Exists(arch, n)) =>
          RenameAborts(n) /\ action'[n] = Unscanned]_vars

\* the current run follows a real full run that was killed, with the same options
AfterKill ==
    /\ prev.ran
    /\ prev.pc = "killed"
    /\ ~prev.args.dry_run
    /\ prev.args.mark = NoName
    /\ args = prev.args

\* what the killed run would have planned had it not been killed
Uninterrupted ==
    FullScan(prev.args, prev.work0, prev.arch0, 0, prev.known_archive_dirs,
             sorted(CHOOSE s \in Listings(SubDirs(prev.work0)) : TRUE), << >>)

\* C13: when a real full run without --rename, started with no marker shared by two
\* work or two archive subdirectories, is killed between two filesystem calls, the
\* next complete real run with the same options ends without error and its
\* sync_plan has every (work path, archive target) pair the killed run would have
\* planned; none of those work subdirectories is in skipped_list.
C13_RecoversAfterKill ==
    (AfterKill /\ ~args.rename /\ UniqueIds(prev.work0) /\ UniqueIds(prev.arch0)
               /\ Uninterrupted.err = NoErr /\ Ended) =>
        /\ pc = "done"
        /\ \A i \in 1..Len(Uninterrupted.rsync_todo) :
              /\ \E j \in 1..Len(rsync_todo) : rsync_todo[j] = Uninterrupted.rsync_todo[i]
              /\ Planned(skipped, Uninterrupted.rsync_todo[i].work_path) = {}

\* the identity file cannot be read: no permission, or a byte that does not decode
CannotBeRead ==
    \/ idfile.mode = "unreadable"
    \/ idfile.mode = "readable" /\
          \E i \in 1..Len(idfile.content) : idfile.content[i] = Undecodable

IdCallOver == idfile.step \in {"classified", "aborted"}

\* C14: when the identity file exists and cannot be read, read_dir_id yields None
\* and the run goes on, the directory taken as one without a marker.
C14_UnreadableIsUnmarked ==
    (IdCallOver /\ CannotBeRead) =>
        /\ idfile.raised = NoErr
        /\ idfile.dir_id = None
        /\ idfile.step = "classified"
        /\ ~idfile.marked

\* the first line that is not blank, stripped; None when every line is blank
RECURSIVE FirstNonBlankLine(_)
FirstNonBlankLine(c) ==
    IF c = << >> THEN None
    ELSE IF strip(readline(c)) # << >> THEN strip(readline(c))
    ELSE FirstNonBlankLine(SubSeq(c, Len(readline(c)) + 1, Len(c)))

\* C15: for every content that can be read, read_dir_id returns the first
\* non-blank line, stripped, also when blank lines come before it, and None only
\* when the file is absent or has no non-blank line.
C15_FirstNonBlankLine ==
    (idfile.step = "read" /\ ~CannotBeRead) =>
        /\ idfile.raised = NoErr
        /\ idfile.dir_id = IF idfile.mode = "absent" THEN None
                           ELSE FirstNonBlankLine(idfile.content)

WorkOnly == Files(prepass.work_files) \ Files(prepass.arch_files0)
ArchOnly == Files(prepass.arch_files0) \ Files(prepass.work_files)

\* C16: for every pair of listings, a real rename pre-pass ends without a failed
\* rename: every rename takes an archive-only file to the name of a work-only file
\* of the same size, each archive-only file is renamed at most once, and files
\* that both sides have under one name are left alone.
C16_PrePassNeverFails ==
    (prepass.step \in {"loop", "returned", "raised"} /\ ~prepass.dry_run) =>
        /\ prepass.step # "raised"
        /\ prepass.err = NoErr
        /\ \A i \in 1..Len(prepass.renamed) :
              /\ prepass.renamed[i].src \in ArchOnly
              /\ prepass.renamed[i].dst \in WorkOnly
              /\ prepass.arch_files0[prepass.renamed[i].src] =
                    prepass.work_files[prepass.renamed[i].dst]
        /\ \A i, j \in 1..Len(prepass.renamed) :
              i # j => prepass.renamed[i].src # prepass.renamed[j].src
        /\ \A f \in Files(prepass.work_files) \cap Files(prepass.arch_files0) :
              prepass.arch_files[f] = prepass.arch_files0[f]

\* the rsync loop is about to make its first call
MirrorStarts == pc = "sync" /\ syncq = rsync_todo

\* C17: in a real run, from any roots, two work subdirectories with one marker
\* included, no archive subdirectory is renamed twice, no rename is issued for a
\* source that is gone, and every RESYNC target of sync_plan exists when the rsync
\* loop starts.
C17_IndexNeverStale ==
    (RealRun /\ FullRun) =>
        /\ \A i, j \in OpsOf("rename") :
              i # j => ops[i].src # ops[j].src /\ ops[i].dst # ops[j].src
        /\ ~(ScanAborted /\ err = "FileNotFoundError")
        /\ MirrorStarts =>
              \A i \in 1..Len(rsync_todo) :
                 action[rsync_todo[i].work_path] = "RESYNC" =>
                    Exists(arch, rsync_todo[i].archive_path)

\* the roots before the first run
FirstWork == IF prev.ran THEN prev.work0 ELSE work0
FirstArch == IF prev.ran THEN prev.arch0 ELSE arch0

\* a real run that reached its end
RealDone(p, ar) == p = "done" /\ ~ar.dry_run

\* every run so far was a real run that reached its end, rsync calls included
AllRunsComplete == RealDone(pc, args) /\ (prev.ran => RealDone(prev.pc, prev.args))

HoldersOf(i) == {n \in SubDirs(arch) : arch[n].id = i}

\* C18: when no two work subdirectories and no two archive subdirectories share a
\* marker before the first run, then after one or two complete real runs with any
\* options (a --mark run included) no two archive subdirectories share a marker,
\* no two work subdirectories do, and every marked work subdirectory of sync_plan
\* has exactly one archive subdirectory with its marker.
C18_MarkersStayUnique ==
    (UniqueIds(FirstWork) /\ UniqueIds(FirstArch) /\ AllRunsComplete) =>
        /\ UniqueIds(arch)
        /\ UniqueIds(work)
        /\ \A i \in 1..Len(rsync_todo) :
              work[rsync_todo[i].work_path].id # NoId =>
                 Cardinality(HoldersOf(work[rsync_todo[i].work_path].id)) = 1

C18_Witness ==
    /\ UniqueIds(FirstWork) /\ UniqueIds(FirstArch) /\ AllRunsComplete
    /\ prev.ran /\ prev.args.mark = NoName /\ FullRun
    /\ \E n \in Names : prev.action[n] = "RENAMED"
    /\ \E n \in Names : prev.action[n] = "NEW_CONFLICT_OVERWRITE"
    /\ Len(rsync_todo) >= 2

====
